---- MODULE Spec2Model ----
(***************************************************************************)
(* Task sharing and visibility of the task-manager API                     *)
(* (apps/tasks: models.py, permissions.py, api/serializers.py,             *)
(* api/views.py).  The store is the tasks table and the task_shares table. *)
(* Every request handler of TaskViewSet is a function from the store and   *)
(* the request to the new store and the HTTP response (the ...Result       *)
(* operators) and one action that applies it; resp keeps the status code   *)
(* and the detail of the last response.  Two share requests running        *)
(* concurrently are modelled step by step in SpecRace.                     *)
(***************************************************************************)
EXTENDS Integers, Sequences, FiniteSets, Bags, TLC

VARIABLES tasks, nextId, shares, resp, calls, now, scan, outbox, notif

vars == <<tasks, nextId, shares, resp, calls, now, scan, outbox, notif>>

\* The state of the Celery worker: its clock, the deadline scan in progress,
\* the messages handed to the transport and the point notification in
\* progress.
scanVars == <<now, scan, outbox, notif>>

\* ------------------------------------------------------------------ bounds
\* Number of primary keys the tasks table hands out (ids are never reused).
MaxTasks == 1

TaskIds == 1..MaxTasks

\* ------------------------------------------------------------------- users
\* The users table: three registered users.
Users == {1, 2, 3}

\* Stored e-mail of each user, a sequence of characters (registration stores
\* the lower-cased address, users/api/serializers.py validate_email).
UserEmail(u) ==
    CASE u = 1 -> <<"a", "@", "x">>
      [] u = 2 -> <<"b", "@", "x">>
      [] OTHER -> <<"c", "@", "x">>

\* str.lower() on one character.
LowerChar(c) ==
    CASE c = "A" -> "a"
      [] c = "B" -> "b"
      [] c = "C" -> "c"
      [] c = "X" -> "x"
      [] OTHER -> c

\* str.lower().
Lower(s) == [i \in DOMAIN s |-> LowerChar(s[i])]

\* User.objects.get(email=e): the users whose stored e-mail is exactly e.
UsersByEmail(e) == {u \in Users : UserEmail(u) = e}

\* E-mail addresses a client may send as shared_with_email.
EmailInputs ==
    { <<"A", "@", "X">>, <<"b", "@", "x">>, <<"C", "@", "x">>, <<"z", "@", "x">> }

\* ------------------------------------------------------------------- tasks
Statuses == {"new", "in_progress", "done"}

\* str.strip(): drop leading and trailing blanks.
RECURSIVE StripLeft(_)
StripLeft(s) ==
    IF s = <<>> THEN s
    ELSE IF Head(s) = " " THEN StripLeft(Tail(s)) ELSE s

RECURSIVE StripRight(_)
StripRight(s) ==
    IF s = <<>> THEN s
    ELSE IF s[Len(s)] = " " THEN StripRight(SubSeq(s, 1, Len(s) - 1)) ELSE s

Strip(s) == StripRight(StripLeft(s))

\* Request bodies for create / update / partial_update: a function from the
\* fields the client sent to their values.
DataInputs ==
    { [title |-> <<"a">>, owner |-> 2],
      [title |-> <<" ", "b">>],
      [title |-> <<" ">>],
      [status |-> "new"] }

\* TaskCreateUpdateSerializer.errors: the fields in error.  title is
\* required unless the update is partial and must not be blank
\* (validate_title); status must be a valid choice.
TaskErrors(data, partial) ==
    {f \in {"title"} : \/ "title" \notin DOMAIN data /\ ~partial
                       \/ "title" \in DOMAIN data /\ Strip(data.title) = <<>>}
    \cup {f \in {"status"} : "status" \in DOMAIN data /\ data.status \notin Statuses}

\* TaskCreateUpdateSerializer.is_valid()
IsValidTask(data, partial) == TaskErrors(data, partial) = {}

\* Meta.fields of TaskCreateUpdateSerializer: the only keys of the request
\* body the serializer reads.
SerializerFields == {"title", "description", "status", "priority", "deadline"}

\* A serializer that hands every key of the body to the model.
ValidatedDataAllFields(data) ==
    [f \in DOMAIN data |-> IF f = "title" THEN Strip(data[f]) ELSE data[f]]

\* validated_data: the keys of the body that are serializer fields, the
\* title stripped (validate_title), the rest as sent.
ValidatedData(data) ==
    [f \in DOMAIN data \cap SerializerFields |->
        IF f = "title" THEN Strip(data[f]) ELSE data[f]]

\* ModelSerializer.update: assign the validated fields, keep the others.
ApplyData(task, vd) ==
    [f \in DOMAIN task |-> IF f \in DOMAIN vd THEN vd[f] ELSE task[f]]

\* ------------------------------------------------------------------ shares
\* A task_shares row is [task, shared_with, permission]; the table is a bag
\* of rows, so that two rows for one pair are representable.
Permissions == {"view", "edit"}

NoValue == "<omitted>"

\* permission values a client may send (or omit).
PermissionInputs == {"edit", "admin", NoValue}

\* The task_shares row of task t, grantee u and permission p.
Row(t, u, p) == [task |-> t, shared_with |-> u, permission |-> p]

\* TaskShare.objects.filter(task=t, shared_with=u): the matching rows.
ShareRows(sh, t, u) == {r \in BagToSet(sh) : r.task = t /\ r.shared_with = u}

\* TaskShare.objects.filter(task=t, shared_with=u).count(): a row's
\* permission is one of the two choices.
ShareCount(sh, t, u) == CopiesIn(Row(t, u, "view"), sh) + CopiesIn(Row(t, u, "edit"), sh)

\* TaskShare.objects.filter(task=t).count()
TaskShareCount(sh, t) ==
    BagCardinality([r \in {x \in BagToSet(sh) : x.task = t} |-> sh[r]])

\* The unique constraint left out of the table.
NoUniqueTogether(sh, t, u) == TRUE

\* TaskShare.Meta.unique_together = [['task', 'shared_with']]: whether the
\* table accepts a new row for the pair (t, u).
UniqueTogether(sh, t, u) == ShareCount(sh, t, u) = 0

\* INSERT of one row.
InsertRow(sh, t, u, p) ==
    sh (+) SetToBag({Row(t, u, p)})

\* obj.permission = p; obj.save(): UPDATE of the one row obj.
SaveRow(sh, obj, p) ==
    (sh (-) SetToBag({obj}))
        (+) SetToBag({Row(obj.task, obj.shared_with, p)})

\* share.delete(): DELETE of the one row obj.
DeleteRow(sh, obj) == sh (-) SetToBag({obj})

\* A foreign key that leaves the rows of a deleted task in place.
NoCascade(sh, t) == sh

\* on_delete=CASCADE of TaskShare.task: the rows that survive deleting task t.
CascadeTask(sh, t) ==
    LET keep == {r \in BagToSet(sh) : r.task # t}
    IN [r \in keep |-> sh[r]]

\* -------------------------------------------------------------- visibility
\* n copies of x.
Repeat(x, n) == [i \in 1..n |-> x]

\* A queryset of all tasks, whoever asks.
JoinEveryTask(sh, tk, u, t) == IF t \notin DOMAIN tk THEN 0 ELSE 1

\* Rows that task t contributes to
\*   Task LEFT OUTER JOIN task_shares WHERE owner = u OR shared_with = u:
\* every joined row of a task u owns matches (one row with NULLs when the
\* task has no share), and otherwise the share rows whose grantee is u.
JoinMatches(sh, tk, u, t) ==
    IF t \notin DOMAIN tk THEN 0
    ELSE IF tk[t].owner = u
         THEN IF TaskShareCount(sh, t) = 0 THEN 1 ELSE TaskShareCount(sh, t)
         ELSE ShareCount(sh, t, u)

\* The joined rows' task ids for ids n, n-1, .., 1: Task.Meta.ordering is
\* -created_at, and ids are handed out in creation order.
RECURSIVE Joined(_, _, _, _)
Joined(sh, tk, u, n) ==
    IF n = 0 THEN <<>>
    ELSE Repeat(n, JoinMatches(sh, tk, u, n)) \o Joined(sh, tk, u, n - 1)

\* Whether x occurs in sequence s.
InSeq(x, s) == \E i \in DOMAIN s : s[i] = x

\* The queryset without .distinct().
NoDistinct(s) == s

\* .distinct(): every row once, order kept.
RECURSIVE Distinct(_)
Distinct(s) ==
    IF s = <<>> THEN s
    ELSE LET front == SubSeq(s, 1, Len(s) - 1)
             last == s[Len(s)]
         IN IF InSeq(last, front) THEN Distinct(front)
            ELSE Append(Distinct(front), last)

\* TaskViewSet.get_queryset for request.user = u.
GetQueryset(sh, tk, u) == Distinct(Joined(sh, tk, u, MaxTasks))

\* ------------------------------------------------------------- permissions
SAFE_METHODS == {"GET", "HEAD", "OPTIONS"}

\* has_object_permission without the SAFE_METHODS branch: a grantee needs
\* the edit permission for every method.
EditNeededToRead(sh, tk, u, t, method) ==
    IF tk[t].owner = u THEN "allow"
    ELSE IF ShareCount(sh, t, u) = 0 THEN "deny"
    ELSE IF ShareCount(sh, t, u) > 1 THEN "error"
    ELSE IF (CHOOSE r \in ShareRows(sh, t, u) : TRUE).permission = "edit" THEN "allow"
    ELSE "deny"

\* has_object_permission returning True for every grantee.
AnyShareAllows(sh, tk, u, t, method) ==
    IF tk[t].owner = u THEN "allow"
    ELSE IF ShareCount(sh, t, u) = 0 THEN "deny"
    ELSE IF ShareCount(sh, t, u) > 1 THEN "error"
    ELSE "allow"

\* has_object_permission comparing the permission with VIEW instead of EDIT.
ViewAllowsWrite(sh, tk, u, t, method) ==
    IF tk[t].owner = u THEN "allow"
    ELSE IF ShareCount(sh, t, u) = 0 THEN "deny"
    ELSE IF ShareCount(sh, t, u) > 1 THEN "error"
    ELSE IF method \in SAFE_METHODS THEN "allow"
    ELSE IF (CHOOSE r \in ShareRows(sh, t, u) : TRUE).permission = "view" THEN "allow"
    ELSE "deny"

\* IsTaskOwnerOrSharedWith.has_object_permission: "allow", "deny", or
\* "error" when TaskShare.objects.get finds several rows
\* (MultipleObjectsReturned is not caught).
IsTaskOwnerOrSharedWith(sh, tk, u, t, method) ==
    IF tk[t].owner = u THEN "allow"
    ELSE LET rows == ShareRows(sh, t, u)
         IN IF ShareCount(sh, t, u) = 0 THEN "deny"
            ELSE IF ShareCount(sh, t, u) > 1 THEN "error"
            ELSE IF method \in SAFE_METHODS THEN "allow"
            ELSE IF (CHOOSE r \in rows : TRUE).permission = "edit" THEN "allow"
            ELSE "deny"

\* CanShareTask letting a grantee with the edit permission through.
EditorCanShare(sh, tk, u, t, method) ==
    IF tk[t].owner = u THEN "allow"
    ELSE IF \E r \in ShareRows(sh, t, u) : r.permission = "edit" THEN "allow"
    ELSE "deny"

\* CanShareTask.has_object_permission.
CanShareTask(sh, tk, u, t, method) ==
    IF tk[t].owner = u THEN "allow" ELSE "deny"

\* The permission class of each view action (TaskViewSet.permission_classes
\* and the @action decorators).
ObjectPermission(sh, tk, u, t, method, op) ==
    IF op \in {"share", "shares", "revoke_share"}
    THEN CanShareTask(sh, tk, u, t, method)
    ELSE IsTaskOwnerOrSharedWith(sh, tk, u, t, method)

\* get_queryset().filter(pk=t): the rows of the queryset with id t.
FilterPk(sh, tk, u, t) == Distinct(Repeat(t, JoinMatches(sh, tk, u, t)))

\* GenericAPIView.get_object: get_object_or_404 on the queryset filtered by
\* pk (404 when no row has the id, MultipleObjectsReturned when several
\* do), then check_object_permissions (403 when denied); 0 when the object
\* is returned.
GetObject(sh, tk, u, t, method, op) ==
    LET found == Len(FilterPk(sh, tk, u, t))
    IN IF found = 0 THEN 404
       ELSE IF found > 1 THEN 500
       ELSE LET d == ObjectPermission(sh, tk, u, t, method, op)
            IN IF d = "deny" THEN 403
               ELSE IF d = "error" THEN 500
               ELSE 0

\* ---------------------------------------------------------------- handlers
\* A response: the status code, the 'detail' of the body and the fields
\* named in its 'errors'.
Response(code, detail, errors) == [code |-> code, detail |-> detail, errors |-> errors]

\* The response raised by get_object (404 / 403) or by an uncaught error.
Raised(code) ==
    Response(code,
             CASE code = 404 -> "Not found."
               [] code = 403 -> "Permission denied."
               [] OTHER -> "Server error",
             {})

\* TaskViewSet.create by u with request body data, when the next primary key
\* is nid.
CreateResult(tk, nid, u, data) ==
    IF IsValidTask(data, FALSE)
    THEN [tk |-> [i \in DOMAIN tk \cup {nid} |->
                     IF i = nid
                     THEN ApplyData([owner |-> u, title |-> <<>>, status |-> "new"],
                                    ValidatedData(data))
                     ELSE tk[i]],
          nid |-> nid + 1, resp |-> Response(201, "", {})]
    ELSE [tk |-> tk, nid |-> nid,
          resp |-> Response(400, "Validation failed", TaskErrors(data, FALSE))]

\* TaskViewSet.list by u (no query parameters).
ListResult(sh, tk, u) == [resp |-> Response(200, "", {}), body |-> GetQueryset(sh, tk, u)]

\* TaskViewSet.retrieve
RetrieveResult(sh, tk, u, t) ==
    LET c == GetObject(sh, tk, u, t, "GET", "retrieve")
    IN [resp |-> IF c = 0 THEN Response(200, "", {}) ELSE Raised(c)]

\* TaskViewSet.update (op "update", PUT, partial FALSE) and partial_update
\* (op "partial_update", PATCH, partial TRUE).
UpdateTaskResult(sh, tk, op, method, partial, u, t, data) ==
    LET c == GetObject(sh, tk, u, t, method, op)
    IN IF c # 0 THEN [tk |-> tk, resp |-> Raised(c)]
       ELSE IF ~IsValidTask(data, partial)
       THEN [tk |-> tk,
             resp |-> Response(400, "Validation failed", TaskErrors(data, partial))]
       ELSE [tk |-> [tk EXCEPT ![t] = ApplyData(@, ValidatedData(data))],
             resp |-> Response(200, "", {})]

UpdateResult(sh, tk, u, t, data) ==
    UpdateTaskResult(sh, tk, "update", "PUT", FALSE, u, t, data)

PartialUpdateResult(sh, tk, u, t, data) ==
    UpdateTaskResult(sh, tk, "partial_update", "PATCH", TRUE, u, t, data)

\* TaskViewSet.destroy
DestroyResult(sh, tk, u, t) ==
    LET c == GetObject(sh, tk, u, t, "DELETE", "destroy")
    IN IF c # 0 THEN [tk |-> tk, sh |-> sh, resp |-> Raised(c)]
       ELSE IF tk[t].owner # u
       THEN [tk |-> tk, sh |-> sh,
             resp |-> Response(403, "Only task owner can delete tasks", {})]
       ELSE [tk |-> [i \in DOMAIN tk \ {t} |-> tk[i]], sh |-> CascadeTask(sh, t),
             resp |-> Response(204, "", {})]

\* The serializer without validate_shared_with_email.
ShareErrorsNoLookup(email, perm) ==
    {f \in {"permission"} : perm \notin Permissions \cup {NoValue}}

\* TaskShareCreateSerializer.errors: shared_with_email must be the address,
\* up to letter case, of some user (validate_shared_with_email looks up
\* value.lower()); permission, when sent, must be a valid choice.
ShareErrors(email, perm) ==
    {f \in {"shared_with_email"} : UsersByEmail(Lower(email)) = {}}
    \cup {f \in {"permission"} : perm \notin Permissions \cup {NoValue}}

\* TaskShareCreateSerializer.is_valid()
IsValidShare(email, perm) == ShareErrors(email, perm) = {}

\* validated_data['permission']: the ChoiceField default is VIEW.
ValidatedPermission(perm) == IF perm = NoValue THEN "view" ELSE perm

\* get_or_create in the place of update_or_create: an existing row keeps
\* its permission.
GetOrCreate(sh, t, g, p) ==
    IF ShareCount(sh, t, g) > 1
    THEN [sh |-> sh, created |-> FALSE, raised |-> TRUE]
    ELSE IF ShareCount(sh, t, g) = 1
    THEN [sh |-> sh, created |-> FALSE, raised |-> FALSE]
    ELSE IF UniqueTogether(sh, t, g)
    THEN [sh |-> InsertRow(sh, t, g, p), created |-> TRUE, raised |-> FALSE]
    ELSE [sh |-> sh, created |-> FALSE, raised |-> TRUE]

\* TaskShare.objects.update_or_create(task=t, shared_with=g,
\* defaults={'permission': p}) run without interruption: the new table, the
\* created flag, and whether the call raised.
UpdateOrCreate(sh, t, g, p) ==
    IF ShareCount(sh, t, g) > 1
    THEN [sh |-> sh, created |-> FALSE, raised |-> TRUE]
    ELSE IF ShareCount(sh, t, g) = 1
    THEN [sh |-> SaveRow(sh, CHOOSE r \in ShareRows(sh, t, g) : TRUE, p),
          created |-> FALSE, raised |-> FALSE]
    ELSE IF UniqueTogether(sh, t, g)
    THEN [sh |-> InsertRow(sh, t, g, p), created |-> TRUE, raised |-> FALSE]
    ELSE [sh |-> sh, created |-> FALSE, raised |-> TRUE]

\* share() without the check shared_with_user == request.user.
ShareChecksNoSelfCheck(sh, tk, u, t, email, perm) ==
    LET c == GetObject(sh, tk, u, t, "POST", "share")
    IN IF c # 0 THEN Raised(c)
       ELSE IF ~IsValidShare(email, perm)
       THEN Response(400, "Validation failed", ShareErrors(email, perm))
       ELSE IF UsersByEmail(Lower(email)) = {}
       THEN Response(400, "User not found", {"shared_with_email"})
       ELSE Response(0, "", {})

\* The checks of TaskViewSet.share that come before update_or_create: the
\* response of a rejected request, and a response of code 0 when the
\* request passes them.
ShareChecks(sh, tk, u, t, email, perm) ==
    LET c == GetObject(sh, tk, u, t, "POST", "share")
    IN IF c # 0 THEN Raised(c)
       ELSE IF ~IsValidShare(email, perm)
       THEN Response(400, "Validation failed", ShareErrors(email, perm))
       ELSE IF UsersByEmail(Lower(email)) = {}
       THEN Response(400, "User not found", {"shared_with_email"})
       ELSE IF (CHOOSE g \in UsersByEmail(Lower(email)) : TRUE) = u
       THEN Response(400, "Cannot share task with yourself", {"shared_with_email"})
       ELSE Response(0, "", {})

\* TaskViewSet.share
ShareResult(sh, tk, u, t, email, perm) ==
    LET chk == ShareChecks(sh, tk, u, t, email, perm)
    IN IF chk.code # 0 THEN [sh |-> sh, resp |-> chk]
       ELSE LET g == CHOOSE x \in UsersByEmail(Lower(email)) : TRUE
                r == UpdateOrCreate(sh, t, g, ValidatedPermission(perm))
            IN IF r.raised THEN [sh |-> sh, resp |-> Raised(500)]
               ELSE [sh |-> r.sh,
                     resp |-> Response(IF r.created THEN 201 ELSE 200, "", {})]

\* TaskViewSet.shares: the rows of the task (their order, -shared_at, is not
\* represented: the rows are given as a set).
SharesResult(sh, tk, u, t) ==
    LET c == GetObject(sh, tk, u, t, "GET", "shares")
    IN IF c # 0 THEN [resp |-> Raised(c), rows |-> {}]
       ELSE [resp |-> Response(200, "", {}),
             rows |-> {r \in BagToSet(sh) : r.task = t}]

\* revoke_share deleting with filter(..).delete(): no row is no error.
RevokeShareSilent(sh, tk, u, t, uid) ==
    LET c == GetObject(sh, tk, u, t, "DELETE", "revoke_share")
    IN IF c # 0 THEN [sh |-> sh, resp |-> Raised(c)]
       ELSE [sh |-> [r \in BagToSet(sh) \ ShareRows(sh, t, uid) |-> sh[r]],
             resp |-> Response(204, "", {})]

\* TaskViewSet.revoke_share
RevokeShareResult(sh, tk, u, t, uid) ==
    LET c == GetObject(sh, tk, u, t, "DELETE", "revoke_share")
    IN IF c # 0 THEN [sh |-> sh, resp |-> Raised(c)]
       ELSE IF ShareCount(sh, t, uid) = 0
       THEN [sh |-> sh, resp |-> Response(404, "Share not found", {})]
       ELSE IF ShareCount(sh, t, uid) > 1
       THEN [sh |-> sh, resp |-> Raised(500)]
       ELSE [sh |-> DeleteRow(sh, CHOOSE r \in ShareRows(sh, t, uid) : TRUE),
             resp |-> Response(204, "", {})]

\* ----------------------------------------------------------------- actions
\* No deadline scan has been triggered and no notification is queued.
NoScan ==
    /\ now = 0
    /\ scan = [pc |-> "idle"]
    /\ outbox = EmptyBag
    /\ notif = [pc |-> "idle"]

Init ==
    /\ tasks = <<>>
    /\ nextId = 1
    /\ shares = EmptyBag
    /\ resp = Response(0, "", {})
    /\ calls = <<>>
    /\ NoScan

Create(u, data) ==
    /\ nextId <= MaxTasks
    /\ LET r == CreateResult(tasks, nextId, u, data)
       IN /\ tasks' = r.tk
          /\ nextId' = r.nid
          /\ resp' = r.resp
    /\ UNCHANGED <<shares, calls>>
    /\ UNCHANGED scanVars

List(u) ==
    /\ resp' = ListResult(shares, tasks, u).resp
    /\ UNCHANGED <<tasks, nextId, shares, calls>>
    /\ UNCHANGED scanVars

Retrieve(u, t) ==
    /\ resp' = RetrieveResult(shares, tasks, u, t).resp
    /\ UNCHANGED <<tasks, nextId, shares, calls>>
    /\ UNCHANGED scanVars

Update(u, t, data) ==
    /\ LET r == UpdateResult(shares, tasks, u, t, data)
       IN /\ tasks' = r.tk
          /\ resp' = r.resp
    /\ UNCHANGED <<nextId, shares, calls>>
    /\ UNCHANGED scanVars

PartialUpdate(u, t, data) ==
    /\ LET r == PartialUpdateResult(shares, tasks, u, t, data)
       IN /\ tasks' = r.tk
          /\ resp' = r.resp
    /\ UNCHANGED <<nextId, shares, calls>>
    /\ UNCHANGED scanVars

Destroy(u, t) ==
    /\ LET r == DestroyResult(shares, tasks, u, t)
       IN /\ tasks' = r.tk
          /\ shares' = r.sh
          /\ resp' = r.resp
    /\ UNCHANGED <<nextId, calls>>
    /\ UNCHANGED scanVars

Share(u, t, email, perm) ==
    /\ LET r == ShareResult(shares, tasks, u, t, email, perm)
       IN /\ shares' = r.sh
          /\ resp' = r.resp
    /\ UNCHANGED <<tasks, nextId, calls>>
    /\ UNCHANGED scanVars

Shares(u, t) ==
    /\ resp' = SharesResult(shares, tasks, u, t).resp
    /\ UNCHANGED <<tasks, nextId, shares, calls>>
    /\ UNCHANGED scanVars

RevokeShare(u, t, uid) ==
    /\ LET r == RevokeShareResult(shares, tasks, u, t, uid)
       IN /\ shares' = r.sh
          /\ resp' = r.resp
    /\ UNCHANGED <<tasks, nextId, calls>>
    /\ UNCHANGED scanVars

\* user_id values of the revoke_share URL: the users and an id of no user.
UserIdInputs == Users \cup {0}

\* The request bodies worth sending with a request on which get_object
\* answers c: a handler that get_object stops (c # 0) never reads the
\* body, so one body stands for all of them.
Bodies(c, inputs) == IF c = 0 THEN inputs ELSE {CHOOSE x \in inputs : TRUE}

Next ==
    \/ \E u \in Users, data \in DataInputs : Create(u, data)
    \/ \E u \in Users : List(u)
    \/ \E u \in Users, t \in TaskIds : Retrieve(u, t)
    \/ \E u \in Users, t \in TaskIds :
          \E data \in Bodies(GetObject(shares, tasks, u, t, "PUT", "update"), DataInputs) :
             Update(u, t, data)
    \/ \E u \in Users, t \in TaskIds :
          \E data \in Bodies(GetObject(shares, tasks, u, t, "PATCH", "partial_update"),
                             DataInputs) :
             PartialUpdate(u, t, data)
    \/ \E u \in Users, t \in TaskIds : Destroy(u, t)
    \/ \E u \in Users, t \in TaskIds :
          \E body \in Bodies(GetObject(shares, tasks, u, t, "POST", "share"),
                             EmailInputs \X PermissionInputs) :
             Share(u, t, body[1], body[2])
    \/ \E u \in Users, t \in TaskIds : Shares(u, t)
    \/ \E u \in Users, t \in TaskIds :
          \E uid \in Bodies(GetObject(shares, tasks, u, t, "DELETE", "revoke_share"),
                            UserIdInputs) :
             RevokeShare(u, t, uid)

Spec == Init /\ [][Next]_vars

\* ------------------------------------------------- concurrent share requests
\* Two requests to TaskViewSet.share run concurrently, each in its own
\* worker.  calls[p] is request p: its position pc, its inputs, the grantee
\* it resolved and its response code.  update_or_create is taken apart into
\* its database statements (django.db.models.query: get, else create, and on
\* IntegrityError get again; then save).  select_for_update only removes
\* interleavings of these steps, so no row lock is modelled.
Procs == {1, 2}

\* The owner's well-formed share requests the two workers may be given.
RaceEmails == { <<"b", "@", "x">>, <<"C", "@", "x">> }

InitRace ==
    /\ tasks = (1 :> [owner |-> 1, title |-> <<"a">>, status |-> "new"])
    /\ nextId = 2
    /\ shares \in {EmptyBag} \cup {SetToBag({Row(1, 2, p)}) : p \in Permissions}
    /\ resp = Response(201, "", {})
    /\ calls \in [Procs -> {[pc |-> "start", user |-> 1, task |-> 1, email |-> e,
                             perm |-> p, grantee |-> 0, code |-> 0] :
                               e \in RaceEmails, p \in PermissionInputs}]
    /\ NoScan

\* Request p ends with response code c.
Finish(p, c) == calls' = [calls EXCEPT ![p].pc = "done", ![p].code = c]

\* share(), up to the call of update_or_create.
CallStart(p) ==
    /\ calls[p].pc = "start"
    /\ LET c == calls[p]
           chk == ShareChecks(shares, tasks, c.user, c.task, c.email, c.perm)
       IN IF chk.code # 0 THEN Finish(p, chk.code)
          ELSE calls' = [calls EXCEPT
                            ![p].pc = "get",
                            ![p].grantee = CHOOSE g \in UsersByEmail(Lower(c.email)) : TRUE]
    /\ UNCHANGED <<tasks, nextId, shares, resp>>
    /\ UNCHANGED scanVars

\* get_or_create: self.get(task=.., shared_with=..)
CallGet(p) ==
    /\ calls[p].pc = "get"
    /\ LET n == ShareCount(shares, calls[p].task, calls[p].grantee)
       IN IF n > 1 THEN Finish(p, 500)
          ELSE calls' = [calls EXCEPT ![p].pc = IF n = 1 THEN "save" ELSE "insert"]
    /\ UNCHANGED <<tasks, nextId, shares, resp>>
    /\ UNCHANGED scanVars

\* get_or_create: self.create(..), which the unique constraint may refuse
\* (IntegrityError, caught).
CallInsert(p) ==
    /\ calls[p].pc = "insert"
    /\ LET c == calls[p]
       IN IF UniqueTogether(shares, c.task, c.grantee)
          THEN /\ shares' = InsertRow(shares, c.task, c.grantee, ValidatedPermission(c.perm))
               /\ Finish(p, 201)
          ELSE /\ calls' = [calls EXCEPT ![p].pc = "reget"]
               /\ UNCHANGED shares
    /\ UNCHANGED <<tasks, nextId, resp>>
    /\ UNCHANGED scanVars

\* get_or_create after IntegrityError: self.get(..) again, re-raising when
\* the row is still not there.
CallReget(p) ==
    /\ calls[p].pc = "reget"
    /\ LET n == ShareCount(shares, calls[p].task, calls[p].grantee)
       IN IF n # 1 THEN Finish(p, 500)
          ELSE calls' = [calls EXCEPT ![p].pc = "save"]
    /\ UNCHANGED <<tasks, nextId, shares, resp>>
    /\ UNCHANGED scanVars

\* update_or_create: setattr(obj, 'permission', ..); obj.save()
CallSave(p) ==
    /\ calls[p].pc = "save"
    /\ LET c == calls[p]
           rows == ShareRows(shares, c.task, c.grantee)
       IN IF rows = {}
          THEN /\ Finish(p, 500)
               /\ UNCHANGED shares
          ELSE /\ shares' = SaveRow(shares, CHOOSE r \in rows : TRUE,
                                    ValidatedPermission(c.perm))
               /\ Finish(p, 200)
    /\ UNCHANGED <<tasks, nextId, resp>>
    /\ UNCHANGED scanVars

NextRace ==
    \E p \in Procs :
        \/ CallStart(p)
        \/ CallGet(p)
        \/ CallInsert(p)
        \/ CallReget(p)
        \/ CallSave(p)

SpecRace == InitRace /\ [][NextRace]_vars

\* ----------------------------------------------------------- deadline scan
\* check_task_deadlines (tasks.py), the Celery task the scheduler triggers.
\* Times are whole seconds (UTC), all positive; Null stands for a deadline
\* that is not set (NULL).
Hour == 3600

Day == 86400

LookAheadHours == 24

max_retries == 3

default_retry_delay == 300

Null == -1

\* now.replace(hour=0, minute=0, second=0, microsecond=0)
TodayStart(n) == n - (n % Day)

\* now.replace(hour=23, minute=59, second=59, microsecond=999999): the last
\* whole second of the day of n.
TodayEnd(n) == TodayStart(n) + (Day - 1)

\* The first exclude(): created today and due today.
CreatedAndDueToday(task, n) ==
    /\ task.created_at >= TodayStart(n)
    /\ task.created_at <= TodayEnd(n)
    /\ task.deadline >= TodayStart(n)
    /\ task.deadline <= TodayEnd(n)

\* The query without the first exclude().
DueSoonNoExclude(task, n) ==
    /\ task.deadline # Null
    /\ task.deadline > n
    /\ task.deadline <= n + LookAheadHours * Hour
    /\ task.status # "done"

\* The query with deadline__lt in place of deadline__lte.
DueSoonStrictUpper(task, n) ==
    /\ task.deadline # Null
    /\ task.deadline > n
    /\ task.deadline < n + LookAheadHours * Hour
    /\ ~CreatedAndDueToday(task, n)
    /\ task.status # "done"

\* The row filter of tasks_due_soon at instant n.
DueSoon(task, n) ==
    /\ task.deadline # Null
    /\ task.deadline > n
    /\ task.deadline <= n + LookAheadHours * Hour
    /\ ~CreatedAndDueToday(task, n)
    /\ task.status # "done"

\* The ids of the rows of tasks_due_soon.
TasksDueSoon(tk, n) == {t \in DOMAIN tk : DueSoon(tk[t], n)}

\* The orders in which the rows of S may come back: Meta.ordering is
\* -created_at, rows created at the same instant come in any order.
Orderings(tk, S) ==
    {q \in [1..Cardinality(S) -> S] :
        /\ \A i, j \in DOMAIN q : i # j => q[i] # q[j]
        /\ \A i, j \in DOMAIN q : i < j => tk[q[i]].created_at >= tk[q[j]].created_at}

\* int(x / y) for integers: truncation toward zero.
Trunc(x, y) == IF x >= 0 THEN x \div y ELSE -((-x) \div y)

\* Hours remaining rounded up.
HoursRoundedUp(deadline, n) == Trunc((deadline - n) + (Hour - 1), Hour)

\* hours_remaining = int(time_remaining.total_seconds() / 3600)
HoursRemaining(deadline, n) == Trunc(deadline - n, Hour)

\* The transport is the client of the only backend the factory knows,
\* FakeEmailClient (factory.py, create_client; shared/email/__init__.py asks
\* the factory for get_client, a name the factory does not define, so the
\* client is taken to be the one create_client builds).  send_email and
\* send_bulk_email both end without a return statement, as IEmailClient
\* declares them (-> None): a send that fails can only raise.
SendEmailResult == "None"

SendBulkEmailResult == "None"

\* bool(v) as `if v:` sees it.
Truthy(v) == v \notin {"None", FALSE, 0}

\* The addresses of shared_users_emails for task t, in the orders the rows
\* of task.shares may come back.
SharedUsersEmails(sh, t) ==
    LET G == {u \in Users : ShareCount(sh, t, u) > 0}
    IN {[i \in DOMAIN q |-> UserEmail(q[i])] :
           q \in {q \in [1..Cardinality(G) -> G] :
                     \A i, j \in DOMAIN q : i # j => q[i] # q[j]}}

\* The reminder of task t handed to the transport for address to; its body
\* (_build_reminder_email) states the hours remaining h.
Msg(t, to, h) == [task |-> t, to |-> to, hours |-> h]

\* self.retry() that never gives up.
RetryForever(sc, n, err) ==
    [sc EXCEPT !.pc = "waiting", !.retries = @ + 1,
               !.eta = n + default_retry_delay, !.error = err]

\* except Exception: raise self.retry(exc=exc).  Celery schedules the task
\* again after default_retry_delay while the retries made so far are fewer
\* than max_retries, and re-raises exc otherwise.
Retry(sc, n, err) ==
    IF sc.retries + 1 > max_retries
    THEN [sc EXCEPT !.pc = "failed", !.error = err]
    ELSE [sc EXCEPT !.pc = "waiting", !.retries = @ + 1,
                    !.eta = n + default_retry_delay, !.error = err]

\* End of one pass of the for loop: the next task, or the return statement.
Advance(sc, n) ==
    IF sc.i = Len(sc.queue)
    THEN [sc EXCEPT !.pc = "success",
                    !.summary = [status |-> "success",
                                 tasks_processed |-> sc.count,
                                 emails_sent |-> sc.emails_sent,
                                 timestamp |-> n]]
    ELSE [sc EXCEPT !.pc = "loop", !.i = @ + 1]

\* result = send_bulk_email(..) has returned; emails_sent += result['success']
\* raises TypeError when result is None.
AfterBulk(sc, n) ==
    IF SendBulkEmailResult = "None"
    THEN Retry(sc, n, "TypeError")
    ELSE Advance([sc EXCEPT !.emails_sent = @ + SendBulkEmailResult.success], n)

\* Number of rows of the tasks table when the scan is triggered.
MaxScanTasks == 2

\* Number of times the store or the transport may raise during one
\* triggered run.
MaxFaults == 1

\* The instants at which the scheduler triggers the scan: 00:30 and 12:00 of
\* one day.
NowInputs == {10 * Day + 1800, 10 * Day + 12 * Hour}

\* The rows the table may hold, relative to the instant n of the trigger:
\* the deadline d seconds after n (or not set), created about c seconds
\* before n.
TaskShapes ==
    { [d |-> 23 * Hour,        c |-> 10 * Day, s |-> "new"],
      [d |-> 23 * Hour,        c |-> 60,       s |-> "new"],
      [d |-> 3 * Hour + 1800,  c |-> 10 * Day, s |-> "new"],
      [d |-> 25 * Hour,        c |-> 10 * Day, s |-> "new"],
      [d |-> Hour,             c |-> 10 * Day, s |-> "done"],
      [d |-> 0,                c |-> 10 * Day, s |-> "new"],
      [d |-> 24 * Hour,        c |-> 10 * Day, s |-> "in_progress"],
      [d |-> Null,             c |-> 10 * Day, s |-> "new"] }

\* The row of task t with shape x at instant n; task t belongs to user
\* ((t - 1) mod 3) + 1, and rows with a higher id were created later
\* (created_at is set by auto_now_add).
ScanTask(t, x, n) ==
    [owner |-> ((t - 1) % 3) + 1, title |-> <<"a">>, status |-> x.s,
     deadline |-> IF x.d = Null THEN Null ELSE n + x.d,
     created_at |-> (n - x.c) + t]

\* The share tables the scan may find: none, two grantees of task 1, one
\* grantee of task 2.
ScanShares ==
    { EmptyBag,
      SetToBag({Row(1, 2, "view"), Row(1, 3, "edit")}),
      SetToBag({Row(2, 3, "edit")}) }

\* The scheduler has triggered check_task_deadlines; the first execution is
\* about to start.
InitScan ==
    /\ now \in NowInputs
    /\ tasks \in {[t \in 1..MaxScanTasks |-> ScanTask(t, f[t], now)] :
                     f \in [1..MaxScanTasks -> TaskShapes]}
    /\ nextId = MaxScanTasks + 1
    /\ shares \in ScanShares
    /\ resp = Response(0, "", {})
    /\ calls = <<>>
    /\ scan = [pc |-> "start", retries |-> 0, eta |-> now, queue |-> <<>>,
               count |-> 0, i |-> 0, rest |-> <<>>,
               emails_sent |-> 0, tried |-> {}, error |-> "", faults |-> 0,
               summary |-> [status |-> "none"],
               run |-> 1, mark |-> EmptyBag, rows |-> <<>>, started |-> EmptyBag]
    /\ outbox = EmptyBag
    /\ notif = [pc |-> "idle"]

\* The rows the SELECT of tasks_due_soon returns at instant n: the loop
\* works on these objects, whatever happens to the table afterwards.
Fetched(tk, n) == [t \in TasksDueSoon(tk, n) |-> tk[t]]

\* Lines 15-38 with no other writer at work: the execution reads the clock
\* and runs the COUNT query and the SELECT, which then see the same table;
\* the store may be unavailable, which raises inside the try block.
ScanStart ==
    /\ scan.pc = "start"
    /\ LET sc == [scan EXCEPT !.queue = <<>>, !.count = 0, !.i = 0, !.rest = <<>>,
                              !.emails_sent = 0,
                              !.tried = {}, !.error = ""]
       IN \/ \E q \in Orderings(tasks, TasksDueSoon(tasks, now)) :
                scan' = Advance([sc EXCEPT !.queue = q, !.count = Len(q),
                                           !.rows = Fetched(tasks, now),
                                           !.started = shares], now)
          \/ /\ scan.faults < MaxFaults
             /\ scan' = Retry([sc EXCEPT !.faults = @ + 1], now, "db")
    /\ UNCHANGED <<tasks, nextId, shares, resp, calls, now, outbox, notif>>

\* Lines 15-36 when other requests write to the store while the scan runs:
\* the execution reads the clock and tasks_due_soon.count() runs its own
\* COUNT query.
ScanCount ==
    /\ scan.pc = "start"
    /\ LET sc == [scan EXCEPT !.queue = <<>>, !.count = 0, !.i = 0, !.rest = <<>>,
                              !.emails_sent = 0,
                              !.tried = {}, !.error = "", !.rows = <<>>,
                              !.started = shares]
       IN \/ scan' = [sc EXCEPT !.pc = "select",
                                !.count = Cardinality(TasksDueSoon(tasks, now))]
          \/ /\ scan.faults < MaxFaults
             /\ scan' = Retry([sc EXCEPT !.faults = @ + 1], now, "db")
    /\ UNCHANGED <<tasks, nextId, shares, resp, calls, now, outbox, notif>>

\* Line 38: `for task in tasks_due_soon` evaluates the queryset, a second
\* query, whose rows the loop then walks.
ScanSelect ==
    /\ scan.pc = "select"
    /\ \/ \E q \in Orderings(tasks, TasksDueSoon(tasks, now)) :
             scan' = Advance([scan EXCEPT !.queue = q, !.rows = Fetched(tasks, now)],
                             now)
       \/ /\ scan.faults < MaxFaults
          /\ scan' = Retry([scan EXCEPT !.faults = @ + 1], now, "db")
    /\ UNCHANGED <<tasks, nextId, shares, resp, calls, now, outbox, notif>>

\* Lines 38-52: one pass of the loop up to the owner's message.  send_email
\* either hands the message over and returns, or raises.  The task and its
\* owner are the objects the SELECT returned; task.shares.select_related()
\* is a new queryset, which the prefetch does not serve: it reads the share
\* table at this point.
ScanOwner ==
    /\ scan.pc = "loop"
    /\ LET t == scan.queue[scan.i]
           to == UserEmail(scan.rows[t].owner)
           m == Msg(t, to, HoursRemaining(scan.rows[t].deadline, now))
           sc == [scan EXCEPT !.tried = @ \cup {m}]
       IN \/ /\ outbox' = outbox (+) SetToBag({m})
             /\ \E emails \in SharedUsersEmails(shares, t) :
                   LET sent == [sc EXCEPT
                                   !.emails_sent =
                                       IF Truthy(SendEmailResult) THEN @ + 1 ELSE @]
                   IN scan' = IF emails = <<>>
                              THEN Advance(sent, now)
                              ELSE [sent EXCEPT !.pc = "bulk", !.rest = emails]
          \/ /\ scan.faults < MaxFaults
             /\ scan' = Retry([sc EXCEPT !.faults = @ + 1], now, "transport")
             /\ UNCHANGED outbox
    /\ UNCHANGED <<tasks, nextId, shares, resp, calls, now, notif>>

\* Lines 54-57 and FakeEmailClient.send_bulk_email: the next address of the
\* bulk send; after the last one send_bulk_email returns and the scan reads
\* result['success'].
ScanBulk ==
    /\ scan.pc = "bulk"
    /\ LET t == scan.queue[scan.i]
           to == Head(scan.rest)
           m == Msg(t, to, HoursRemaining(scan.rows[t].deadline, now))
           sc == [scan EXCEPT !.tried = @ \cup {m}]
       IN \/ /\ outbox' = outbox (+) SetToBag({m})
             /\ LET sent == [sc EXCEPT !.rest = Tail(@)]
                IN scan' = IF sent.rest = <<>> THEN AfterBulk(sent, now) ELSE sent
          \/ /\ scan.faults < MaxFaults
             /\ scan' = Retry([sc EXCEPT !.faults = @ + 1], now, "transport")
             /\ UNCHANGED outbox
    /\ UNCHANGED <<tasks, nextId, shares, resp, calls, now, notif>>

\* The retry comes due: the worker starts the next execution at its eta.
ScanWake ==
    /\ scan.pc = "waiting"
    /\ now' = scan.eta
    /\ scan' = [scan EXCEPT !.pc = "start"]
    /\ UNCHANGED <<tasks, nextId, shares, resp, calls, outbox, notif>>

NextScan ==
    \/ ScanStart
    \/ ScanOwner
    \/ ScanBulk
    \/ ScanWake

SpecScan == InitScan /\ [][NextScan]_vars

\* The worker runs every execution that is due.
SpecScanFair == SpecScan /\ WF_vars(NextScan)

\* Number of requests that write to the store while one scan runs.
MaxWrites == 1

\* A request arrives while a scan runs and its handler writes to the store;
\* calls keeps the requests served.  The owner of a task marks it done
\* (partial_update), deletes it (destroy), shares it with user 3 (share)
\* or revokes that share (revoke_share).  A task created meanwhile has no
\* deadline in this model and is left out.
ConcurrentWrite ==
    /\ scan.pc \notin {"success", "failed"}
    /\ Len(calls) < MaxWrites
    /\ \E t \in DOMAIN tasks :
          LET u == tasks[t].owner
          IN \/ LET r == PartialUpdateResult(shares, tasks, u, t, [status |-> "done"])
                IN /\ tasks' = r.tk
                   /\ resp' = r.resp
                   /\ calls' = Append(calls, "partial_update")
                   /\ UNCHANGED shares
             \/ LET r == DestroyResult(shares, tasks, u, t)
                IN /\ tasks' = r.tk
                   /\ shares' = r.sh
                   /\ resp' = r.resp
                   /\ calls' = Append(calls, "destroy")
             \/ LET r == ShareResult(shares, tasks, u, t, UserEmail(3), "edit")
                IN /\ shares' = r.sh
                   /\ resp' = r.resp
                   /\ calls' = Append(calls, "share")
                   /\ UNCHANGED tasks
             \/ LET r == RevokeShareResult(shares, tasks, u, t, 3)
                IN /\ shares' = r.sh
                   /\ resp' = r.resp
                   /\ calls' = Append(calls, "revoke_share")
                   /\ UNCHANGED tasks
    /\ UNCHANGED <<nextId, scanVars>>

NextScanApi ==
    \/ ScanCount
    \/ ScanSelect
    \/ ScanOwner
    \/ ScanBulk
    \/ ScanWake
    \/ ConcurrentWrite

\* A scan is triggered at noon over tasks that are all candidates, while
\* requests keep arriving.
InitScanApi ==
    /\ InitScan
    /\ now = 10 * Day + 12 * Hour
    /\ \A t \in DOMAIN tasks : DueSoon(tasks[t], now)

SpecScanApi == InitScanApi /\ [][NextScanApi]_vars

\* Number of runs the scheduler triggers one after the other.
MaxRuns == 2

\* The time from the end of one run to the next trigger: the schedule is
\* the scheduler's, the scan takes whatever instant it is started at.
TriggerDelays == {Hour, 12 * Hour}

\* The scheduler triggers check_task_deadlines again after the run before
\* is over: a new task instance with no retries behind it.  mark keeps what
\* the transport had been handed before this trigger.
ScanTrigger ==
    /\ scan.pc \in {"success", "failed"}
    /\ scan.run < MaxRuns
    /\ \E d \in TriggerDelays : now' = now + d
    /\ scan' = [scan EXCEPT !.pc = "start", !.retries = 0, !.eta = now',
                            !.faults = 0, !.run = @ + 1, !.mark = outbox]
    /\ UNCHANGED <<tasks, nextId, shares, resp, calls, outbox, notif>>

NextRescan ==
    \/ NextScan
    \/ ScanTrigger

SpecRescan == InitScan /\ [][NextRescan]_vars

\* ------------------------------------------------- point notification
\* send_task_notification (tasks.py), the Celery task that tells one address
\* about one task.  Text is a sequence of pieces, an f-string being the
\* concatenation of its pieces.
\* Task.Priority: value -> label, as get_priority_display() reads it.
PriorityDisplay(p) ==
    CASE p = "low" -> "Low"
      [] p = "medium" -> "Medium"
      [] p = "high" -> "High"

\* Task.Status: value -> label, as get_status_display() reads it.
StatusDisplay(s) ==
    CASE s = "new" -> "New"
      [] s = "in_progress" -> "In Progress"
      [] s = "done" -> "Done"

\* The fallback pair of messages.get().
GenericEmail(task) ==
    [subject |-> <<"Task Notification: ">> \o task.title,
     body |-> <<"Task: ">> \o task.title]

\* The dict messages of _build_notification_email.
NotificationMessages(task) ==
    [k \in {"task_created", "task_updated", "task_shared", "task_completed"} |->
        CASE k = "task_created" ->
                 [subject |-> <<"New Task Created: ">> \o task.title,
                  body |-> <<"Task: ">> \o task.title
                               \o <<"\nPriority: ", PriorityDisplay(task.priority)>>]
          [] k = "task_updated" ->
                 [subject |-> <<"Task Updated: ">> \o task.title,
                  body |-> <<"Task: ">> \o task.title
                               \o <<"\nStatus: ", StatusDisplay(task.status)>>]
          [] k = "task_shared" ->
                 [subject |-> <<"Task Shared: ">> \o task.title,
                  body |-> <<"Owner: ">> \o UserEmail(task.owner)
                               \o <<"\nTask: ">> \o task.title]
          [] k = "task_completed" ->
                 [subject |-> <<"Task Completed: ">> \o task.title,
                  body |-> <<"Task: ">> \o task.title \o <<" has been completed">>]]

\* _build_notification_email(task, notification_type)
BuildNotificationEmail(task, notification_type) ==
    IF notification_type \in DOMAIN NotificationMessages(task)
    THEN NotificationMessages(task)[notification_type]
    ELSE GenericEmail(task)

\* The message send_email(user_email, subject, body) hands to the transport.
Email(to, m) == [to |-> to, subject |-> m.subject, body |-> m.body]

\* The dict send_task_notification returns after send_email has returned v.
NotificationResult(v, task_id, user_email) ==
    IF Truthy(v)
    THEN [status |-> "success", task_id |-> task_id, email |-> user_email]
    ELSE [status |-> "error", error |-> "Email send failed"]

\* The dict the except clause returns: str(exc).
NotificationError(exc) == [status |-> "error", error |-> exc]

\* The values callers pass as notification_type: the four keys of messages
\* and one that is not a key.
NotificationTypes ==
    {"task_created", "task_updated", "task_shared", "task_completed", "task_deleted"}

\* The rows the table may hold when the notification runs.
NotifyShapes ==
    { [s |-> "new", p |-> "medium"],
      [s |-> "done", p |-> "high"] }

\* A notification has been queued: the table holds some of the rows
\* 1..MaxScanTasks (the others were deleted or never existed) and the worker
\* is about to run send_task_notification(task_id, notification_type,
\* user_email).
InitNotify ==
    /\ now \in NowInputs
    /\ \E S \in SUBSET (1..MaxScanTasks) : \E f \in [S -> NotifyShapes] :
          tasks = [t \in S |->
                      [owner |-> ((t - 1) % 3) + 1, title |-> <<"a">>,
                       status |-> f[t].s, priority |-> f[t].p,
                       deadline |-> Null, created_at |-> now - Day]]
    /\ nextId = MaxScanTasks + 1
    /\ shares = EmptyBag
    /\ resp = Response(0, "", {})
    /\ calls = <<>>
    /\ scan = [pc |-> "idle"]
    /\ outbox = EmptyBag
    /\ \E task_id \in 1..MaxScanTasks, notification_type \in NotificationTypes,
          u \in Users :
          notif = [pc |-> "get", task_id |-> task_id,
                   notification_type |-> notification_type,
                   user_email |-> UserEmail(u),
                   found |-> FALSE, tried |-> 0, faults |-> 0,
                   result |-> [status |-> "none"]]

\* Line 95: Task.objects.select_related('owner').get(id=task_id).  The row
\* is there, or get() raises DoesNotExist, or the store is unavailable;
\* either error lands in the except clause.
NotifyGet ==
    /\ notif.pc = "get"
    /\ \/ /\ notif.task_id \in DOMAIN tasks
          /\ notif' = [notif EXCEPT !.pc = "send", !.found = TRUE]
       \/ /\ notif.task_id \notin DOMAIN tasks
          /\ notif' = [notif EXCEPT !.pc = "done",
                          !.result = NotificationError("Task matching query does not exist.")]
       \/ /\ notif.faults < MaxFaults
          /\ notif' = [notif EXCEPT !.pc = "done", !.faults = @ + 1,
                          !.result = NotificationError("db")]
    /\ UNCHANGED <<tasks, nextId, shares, resp, calls, now, scan, outbox>>

\* Lines 96-106: the message is built and handed to send_email, which
\* delivers it and returns, or raises.
NotifySend ==
    /\ notif.pc = "send"
    /\ LET m == Email(notif.user_email,
                      BuildNotificationEmail(tasks[notif.task_id],
                                             notif.notification_type))
       IN \/ /\ outbox' = outbox (+) SetToBag({m})
             /\ notif' = [notif EXCEPT !.pc = "done", !.tried = @ + 1,
                             !.result = NotificationResult(SendEmailResult,
                                                           notif.task_id,
                                                           notif.user_email)]
          \/ /\ notif.faults < MaxFaults
             /\ notif' = [notif EXCEPT !.pc = "done", !.tried = @ + 1,
                             !.faults = @ + 1,
                             !.result = NotificationError("transport")]
             /\ UNCHANGED outbox
    /\ UNCHANGED <<tasks, nextId, shares, resp, calls, now, scan>>

NextNotify ==
    \/ NotifyGet
    \/ NotifySend

SpecNotify == InitNotify /\ [][NextNotify]_vars

\* ------------------------------------------------------------------ claims
\* The permission u holds on task t through the share table: "none" when
\* there is no row for the pair.
PermOf(sh, t, u) ==
    IF ShareRows(sh, t, u) = {} THEN "none"
    ELSE (CHOOSE r \in ShareRows(sh, t, u) : TRUE).permission

\* The users other than the owner who hold a share on task t.
Grantees(t) == {u \in Users : u # tasks[t].owner /\ PermOf(shares, t, u) # "none"}

\* The e-mail inputs that are user u's address up to letter case.
EmailsOf(u) == {e \in EmailInputs : Lower(e) = Lower(UserEmail(u))}

\* C1: in every reachable state, for every user u and existing task t, the
\* read request (retrieve) of u on t is allowed (200) if and only if u is
\* the owner of t or a share row for (t, u) exists.
C1_ReadIffOwnerOrShared ==
    \A u \in Users, t \in DOMAIN tasks :
        (RetrieveResult(shares, tasks, u, t).resp.code = 200)
            <=> (tasks[t].owner = u \/ ShareCount(shares, t, u) > 0)

\* A read was answered 200 while the task has a view grantee (allowed) and a
\* user who is neither owner nor grantee (refused).
C1_Witness ==
    /\ resp.code = 200
    /\ \E t \in DOMAIN tasks, u, v \in Users :
          /\ u \in Grantees(t) /\ PermOf(shares, t, u) = "view"
          /\ v # tasks[t].owner /\ v \notin Grantees(t)
          /\ RetrieveResult(shares, tasks, u, t).resp.code = 200
          /\ RetrieveResult(shares, tasks, v, t).resp.code = 404

\* C2: an update or partial update of a task by a grantee whose share has
\* the view permission is answered 403 and leaves the tasks table as it is,
\* whatever the request body.
C2_ViewGranteeCannotUpdate ==
    \A t \in DOMAIN tasks, u \in Users :
        PermOf(shares, t, u) = "view" =>
            \A data \in DataInputs :
                /\ UpdateResult(shares, tasks, u, t, data).resp.code = 403
                /\ UpdateResult(shares, tasks, u, t, data).tk = tasks
                /\ PartialUpdateResult(shares, tasks, u, t, data).resp.code = 403
                /\ PartialUpdateResult(shares, tasks, u, t, data).tk = tasks

\* A request was answered 403 "Permission denied." while a view grantee's
\* update with a title other than the task's is refused.
C2_Witness ==
    /\ resp = Raised(403)
    /\ \E t \in DOMAIN tasks, u \in Users, data \in DataInputs :
          /\ PermOf(shares, t, u) = "view"
          /\ IsValidTask(data, FALSE)
          /\ ValidatedData(data).title # tasks[t].title
          /\ UpdateResult(shares, tasks, u, t, data).resp.code = 403

\* C3: the decision on an update follows the share table as it is now: in
\* every reachable state (so after every order of grant, upgrade, downgrade
\* and revoke) a valid update of task t by a user g other than the owner is
\* accepted (200) exactly when g's share on t has the edit permission, and
\* is refused 403 with a view share and 404 with no share.
C3_UpdateFollowsCurrentShare ==
    \A t \in DOMAIN tasks : \A g \in Users \ {tasks[t].owner} :
        \A data \in {d \in DataInputs : IsValidTask(d, FALSE)} :
            UpdateResult(shares, tasks, g, t, data).resp.code =
                CASE PermOf(shares, t, g) = "edit" -> 200
                  [] PermOf(shares, t, g) = "view" -> 403
                  [] OTHER -> 404

\* A share request was answered 200 (an existing row was updated) and left
\* the grantee with the edit permission, with which an update is accepted.
C3_Witness ==
    /\ resp = Response(200, "", {})
    /\ \E t \in DOMAIN tasks, g \in Users, data \in DataInputs :
          /\ g # tasks[t].owner
          /\ PermOf(shares, t, g) = "edit"
          /\ IsValidTask(data, FALSE)
          /\ UpdateResult(shares, tasks, g, t, data).resp.code = 200
          /\ UpdateResult(shares, tasks, g, t, data).tk # tasks

\* What a grantee u of task t gets from destroy, share, shares and
\* revoke_share: 403 and an unchanged store.
GranteeIsRefused(u, t) ==
    /\ LET r == DestroyResult(shares, tasks, u, t)
       IN r.resp.code = 403 /\ r.tk = tasks /\ r.sh = shares
    /\ \A email \in EmailInputs, perm \in PermissionInputs :
          LET r == ShareResult(shares, tasks, u, t, email, perm)
          IN r.resp.code = 403 /\ r.sh = shares
    /\ LET r == SharesResult(shares, tasks, u, t)
       IN r.resp.code = 403 /\ r.rows = {}
    /\ \A uid \in UserIdInputs :
          LET r == RevokeShareResult(shares, tasks, u, t, uid)
          IN r.resp.code = 403 /\ r.sh = shares

\* A step that is a request of the owner of a task whose share rows it
\* changes: its deletion when the step changes the tasks table, a
\* revoke_share on it when the step leaves fewer share rows, a share on it
\* otherwise.
OwnerChangesShares ==
    \E t \in {x \in DOMAIN tasks :
                \E u \in Users, p \in Permissions :
                    CopiesIn(Row(x, u, p), shares') # CopiesIn(Row(x, u, p), shares)} :
        IF tasks' # tasks
        THEN Destroy(tasks[t].owner, t)
        ELSE IF BagCardinality(shares') < BagCardinality(shares)
        THEN \E uid \in UserIdInputs : RevokeShare(tasks[t].owner, t, uid)
        ELSE \E email \in EmailInputs, perm \in PermissionInputs :
                Share(tasks[t].owner, t, email, perm)

\* C4: a grantee, with the view or the edit permission, is refused (403)
\* deleting the task and granting, changing, revoking or listing its shares,
\* and the refused request changes neither table; and every step that
\* changes the share table is a request of the owner of the task concerned.
C4_OwnerExclusive ==
    /\ [](\A t \in DOMAIN tasks : \A u \in Grantees(t) : GranteeIsRefused(u, t))
    /\ [][shares' # shares => OwnerChangesShares]_vars

\* The delete of a grantee with the edit permission was answered 403 by the
\* owner check of destroy.
C4_Witness ==
    /\ resp = Response(403, "Only task owner can delete tasks", {})
    /\ \E t \in DOMAIN tasks : \E u \in Grantees(t) : PermOf(shares, t, u) = "edit"

\* C5: share is an upsert.  No pair ever has two rows; a share request of
\* the owner that passes the checks leaves exactly one row for the pair,
\* holding the permission asked for, and answers 201 when there was no row
\* and 200 when there was one.  A second request for the same pair is this
\* statement at the state the first one leaves: it finds the row, leaves one
\* row with the permission of the second request and answers 200.
C5_ShareIsUpsert ==
    /\ \A t \in TaskIds, u \in Users : ShareCount(shares, t, u) <= 1
    /\ \A t \in DOMAIN tasks : \A g \in Users \ {tasks[t].owner} :
          \A email \in EmailsOf(g), perm \in Permissions \cup {NoValue} :
              LET r == ShareResult(shares, tasks, tasks[t].owner, t, email, perm)
              IN /\ ShareCount(r.sh, t, g) = 1
                 /\ PermOf(r.sh, t, g) = ValidatedPermission(perm)
                 /\ r.resp.code = IF ShareCount(shares, t, g) = 0 THEN 201 ELSE 200

\* A share request updated a row (200) that an earlier one had created: the
\* pair has one row, with the edit permission of the later request.
C5_Witness ==
    /\ resp = Response(200, "", {})
    /\ \E t \in DOMAIN tasks : \E u \in Grantees(t) :
          /\ ShareCount(shares, t, u) = 1
          /\ PermOf(shares, t, u) = "edit"
          /\ TaskShareCount(shares, t) = 1

\* The concurrent requests that ended with a row written for grantee g.
Written(g) == {p \in Procs : calls[p].grantee = g /\ calls[p].code \in {200, 201}}

\* C6: under every interleaving of two concurrent share requests of the
\* owner, no state holds two rows for one pair, no request ends in a server
\* error, and once both have ended the row of a pair that a request wrote
\* holds the permission asked for by one of the requests for that pair.
C6_NoDuplicateUnderRace ==
    /\ \A t \in TaskIds, u \in Users : ShareCount(shares, t, u) <= 1
    /\ \A p \in Procs : calls[p].code # 500
    /\ (\A p \in Procs : calls[p].pc = "done") =>
          \A g \in Users :
              Written(g) # {} =>
                  /\ ShareCount(shares, 1, g) = 1
                  /\ PermOf(shares, 1, g) \in
                        {ValidatedPermission(calls[p].perm) : p \in Written(g)}

\* Both requests were for the same pair with different permissions, both
\* found no row, one created it (201) and the other, refused by the unique
\* constraint, updated it (200).
C6_Witness ==
    /\ \A p \in Procs : calls[p].pc = "done"
    /\ calls[1].grantee = calls[2].grantee
    /\ calls[1].code = 201
    /\ calls[2].code = 200
    /\ ValidatedPermission(calls[1].perm) # ValidatedPermission(calls[2].perm)
    /\ PermOf(shares, 1, calls[1].grantee) = ValidatedPermission(calls[2].perm)

\* C7: no share row has the owner of its task as grantee, and a share
\* request of the owner with the owner's own address (in any letter case) is
\* answered 400 for every permission value and leaves the share table as it
\* is.
C7_SelfShareRejected ==
    /\ \A t \in DOMAIN tasks : ShareCount(shares, t, tasks[t].owner) = 0
    /\ \A t \in DOMAIN tasks :
          \A email \in EmailsOf(tasks[t].owner), perm \in PermissionInputs :
              LET r == ShareResult(shares, tasks, tasks[t].owner, t, email, perm)
              IN /\ r.resp.code = 400
                 /\ r.sh = shares
                 /\ perm \in Permissions \cup {NoValue} =>
                       r.resp.detail = "Cannot share task with yourself"

\* A share request was answered "Cannot share task with yourself" while the
\* task has another grantee.
C7_Witness ==
    /\ resp = Response(400, "Cannot share task with yourself", {"shared_with_email"})
    /\ \E t \in DOMAIN tasks : Grantees(t) # {}

\* The e-mail inputs that are no user's address, compared without regard to
\* letter case.
UnknownEmails == {e \in EmailInputs : \A u \in Users : Lower(UserEmail(u)) # Lower(e)}

C9_RevokeMissingIsNotFound ==
    \A t \in DOMAIN tasks, uid \in UserIdInputs :
        LET o == tasks[t].owner
            r == RevokeShareResult(shares, tasks, o, t, uid)
        IN IF ShareCount(shares, t, uid) = 0
           THEN r.resp.code = 404 /\ r.sh = shares
           ELSE /\ r.resp.code = 204
                /\ ShareCount(r.sh, t, uid) = 0
                /\ RevokeShareResult(r.sh, tasks, o, t, uid).resp.code = 404
                /\ RevokeShareResult(r.sh, tasks, o, t, uid).sh = r.sh

\* A revoke_share was answered "Share not found" while another grantee's row
\* is still there.
C9_Witness ==
    /\ resp = Response(404, "Share not found", {})
    /\ \E t \in DOMAIN tasks : Grantees(t) # {}

\* The elements of sequence s.
Range(s) == {s[i] : i \in DOMAIN s}

\* C10: for every user p the task list returned to p holds exactly the
\* tasks p owns and the tasks with a share row whose grantee is p, each id
\* once.
C10_ListIsOwnedOrShared ==
    \A p \in Users :
        LET body == ListResult(shares, tasks, p).body
        IN /\ Range(body) = {t \in DOMAIN tasks :
                                tasks[t].owner = p \/ ShareCount(shares, t, p) > 0}
           /\ \A i, j \in DOMAIN body : i # j => body[i] # body[j]

\* A request was answered 200 while a task has two share rows, so that the
\* join of the owner's list holds the task twice, and a grantee's list
\* holds it too.
C10_Witness ==
    /\ resp = Response(200, "", {})
    /\ \E t \in DOMAIN tasks :
          /\ TaskShareCount(shares, t) >= 2
          /\ Len(Joined(shares, tasks, tasks[t].owner, MaxTasks)) >= 2
          /\ \E g \in Grantees(t) : ListResult(shares, tasks, g).body = <<t>>

\* The ids of the tasks that were created and then deleted (primary keys
\* are handed out in order and never reused).
Deleted == {t \in 1..(nextId - 1) : t \notin DOMAIN tasks}

\* C11: every share row references a task of the tasks table; the owner's
\* delete of a task removes the task and, in the same step, every share row
\* of it, leaves the rows of the other tasks alone, and the owner's shares
\* request on it is then answered 404; and for every task that was deleted
\* the shares request of any user is answered 404.
C11_DeleteCascadesShares ==
    /\ \A r \in BagToSet(shares) : r.task \in DOMAIN tasks
    /\ \A t \in DOMAIN tasks :
          LET o == tasks[t].owner
              r == DestroyResult(shares, tasks, o, t)
          IN /\ r.resp.code = 204
             /\ t \notin DOMAIN r.tk
             /\ TaskShareCount(r.sh, t) = 0
             /\ \A row \in BagToSet(shares) :
                   row.task # t => CopiesIn(row, r.sh) = CopiesIn(row, shares)
             /\ SharesResult(r.sh, r.tk, o, t).resp.code = 404
    /\ \A t \in Deleted : \A u \in Users :
          SharesResult(shares, tasks, u, t).resp.code = 404

\* A task was deleted (204) and no share row is left of it.
C11_Witness ==
    /\ resp = Response(204, "", {})
    /\ Deleted # {}
    /\ \A t \in Deleted : TaskShareCount(shares, t) = 0

\* C12: the owner of a task is the user whose create request made it, and
\* no request changes it: a create by u, whatever its body says, makes a task
\* owned by u; an update or partial update by any user, whatever its body
\* says, leaves the owner of every task as it is; and no step of any handler
\* (share and revoke_share included) changes the owner of a task that stays
\* in the table.
C12_OwnerNeverChanges ==
    /\ [](\A u \in Users, data \in DataInputs :
            /\ (nextId <= MaxTasks /\ IsValidTask(data, FALSE)) =>
                  CreateResult(tasks, nextId, u, data).tk[nextId].owner = u
            /\ \A t \in DOMAIN tasks :
                  /\ UpdateResult(shares, tasks, u, t, data).tk[t].owner = tasks[t].owner
                  /\ PartialUpdateResult(shares, tasks, u, t, data).tk[t].owner
                        = tasks[t].owner)
    /\ [][\A t \in DOMAIN tasks \cap DOMAIN tasks' : tasks'[t].owner = tasks[t].owner]_vars

\* An update by a grantee with the edit permission was accepted, and an
\* accepted update whose body names another owner leaves the owner alone.
C12_Witness ==
    /\ resp = Response(200, "", {})
    /\ \E t \in DOMAIN tasks : \E g \in Grantees(t) : \E data \in DataInputs :
          /\ PermOf(shares, t, g) = "edit"
          /\ "owner" \in DOMAIN data
          /\ data.owner # tasks[t].owner
          /\ UpdateResult(shares, tasks, g, t, data).resp.code = 200
          /\ UpdateResult(shares, tasks, g, t, data).tk[t].owner = tasks[t].owner

\* The calendar day (UTC) of instant x.
DayOf(x) == x \div 86400

\* The candidate set as the specification words it, at instant n: deadline
\* set, after n and no later than 24 hours after n, status not done, and not
\* both created and due on the calendar day of n.
Candidates(n) ==
    {t \in DOMAIN tasks :
        /\ tasks[t].deadline # Null
        /\ n < tasks[t].deadline
        /\ tasks[t].deadline <= n + 24 * 3600
        /\ tasks[t].status # "done"
        /\ ~(DayOf(tasks[t].created_at) = DayOf(n) /\ DayOf(tasks[t].deadline) = DayOf(n))}

\* The scan has run its query in the execution in progress or just ended.
Queried == scan.pc \in {"loop", "bulk", "success"}

\* C13: at every scan instant now the rows the query selects are exactly
\* the tasks whose deadline is set, lies after now and at most 24 hours after
\* now, whose status is not done, and that were not both created and due on
\* the calendar day of now; the list the scan iterates holds exactly these
\* tasks, each once.  In particular: due in 23 hours and created 10 days ago
\* is selected; created today and due today is not; due in 25 hours is not;
\* done and due in 1 hour is not.
C13_CandidateSet ==
    /\ TasksDueSoon(tasks, now) = Candidates(now)
    /\ Queried =>
          /\ Range(scan.queue) = Candidates(now)
          /\ Len(scan.queue) = Cardinality(Candidates(now))
    /\ \A t \in DOMAIN tasks :
          LET x == tasks[t]
          IN /\ (/\ x.deadline = now + 23 * 3600
                 /\ DayOf(x.created_at) = DayOf(now) - 10
                 /\ x.status = "new") => t \in TasksDueSoon(tasks, now)
             /\ (/\ DayOf(x.created_at) = DayOf(now)
                 /\ x.deadline # Null
                 /\ DayOf(x.deadline) = DayOf(now)) => t \notin TasksDueSoon(tasks, now)
             /\ x.deadline = now + 25 * 3600 => t \notin TasksDueSoon(tasks, now)
             /\ (x.status = "done" /\ x.deadline = now + 3600)
                   => t \notin TasksDueSoon(tasks, now)

\* The scan is working on a task due in 23 hours and created 10 days ago,
\* while another task, due in 23 hours too but created today and due today,
\* was left out.
C13_Witness ==
    /\ scan.pc = "loop"
    /\ \E t, x \in DOMAIN tasks :
          /\ scan.queue = <<t>>
          /\ tasks[t].deadline = now + 23 * 3600
          /\ DayOf(tasks[t].created_at) = DayOf(now) - 10
          /\ tasks[x].deadline = now + 23 * 3600
          /\ tasks[x].status = "new"
          /\ DayOf(tasks[x].created_at) = DayOf(now)
          /\ DayOf(tasks[x].deadline) = DayOf(now)

\* C14 as stated: a task whose deadline is exactly now, or exactly 24 hours
\* after now, is not selected by the query of that run.
C14_BothBoundsExcluded ==
    \A t \in DOMAIN tasks :
        (tasks[t].deadline = now \/ tasks[t].deadline = now + 24 * 3600)
            => t \notin TasksDueSoon(tasks, now)

\* C14 as amended: the window is open at now and closed at now + 24 hours.
\* A task whose deadline is exactly now is not selected; a task whose
\* deadline is exactly 24 hours after now is selected whenever its status is
\* not done, and is then in the list the scan iterates.
C14_WindowOpenAtNowClosedAtEnd ==
    \A t \in DOMAIN tasks :
        /\ tasks[t].deadline = now => t \notin TasksDueSoon(tasks, now)
        /\ tasks[t].deadline = now + 24 * 3600 =>
              /\ t \in TasksDueSoon(tasks, now) <=> tasks[t].status # "done"
              /\ (Queried /\ tasks[t].status # "done") => t \in Range(scan.queue)

\* The scan is working on a task due exactly 24 hours after now, and left
\* out a task due exactly now.
C14_Witness ==
    /\ scan.pc = "loop"
    /\ \E t, x \in DOMAIN tasks :
          /\ scan.queue = <<t>>
          /\ tasks[t].deadline = now + 24 * 3600
          /\ tasks[x].deadline = now
          /\ tasks[x].status # "done"

\* C15: the hours remaining the scan works out for a candidate task, and
\* states in every reminder of it, is floor((deadline - now) / 3600 seconds),
\* a whole number from 0 to 24; a task due in 3 hours 30 minutes gets 3.
C15_HoursRemainingIsFloor ==
    /\ \A t \in TasksDueSoon(tasks, now) :
          LET secs == tasks[t].deadline - now
              h == HoursRemaining(tasks[t].deadline, now)
          IN /\ h \in 0..24
             /\ h * 3600 <= secs
             /\ secs < (h + 1) * 3600
             /\ secs = 3 * 3600 + 30 * 60 => h = 3
    /\ scan.pc # "start" =>
          \A m \in scan.tried :
              LET secs == tasks[m.task].deadline - now
              IN /\ m.hours \in 0..24
                 /\ m.hours * 3600 <= secs
                 /\ secs < (m.hours + 1) * 3600

\* The reminder of a task due in 3 hours 30 minutes was handed over stating
\* 3 hours, and in a retry five minutes later (3 hours 25 minutes left) it
\* states 3 hours again.
C15_Witness ==
    /\ scan.retries = 1
    /\ \E m \in scan.tried :
          /\ tasks[m.task].deadline - now = 3 * 3600 + 25 * 60
          /\ m.hours = 3
          /\ CopiesIn(m, outbox) = 2

\* How many times the reminder of task t was handed to the transport for
\* address a since the run was triggered.
SentCount(t, a) ==
    LET S == {m \in BagToSet(outbox) : m.task = t /\ m.to = a}
    IN BagCardinality([m \in S |-> outbox[m]])

\* The addresses the reminder of task t is meant for: the owner's and those
\* of the users holding a share on t.
Recipients(t) ==
    {UserEmail(tasks[t].owner)}
        \cup {UserEmail(u) : u \in {v \in Users : ShareCount(shares, t, v) > 0}}

\* The triggered run is over.
RunOver == scan.pc \in {"success", "failed"}

\* The execution in progress is over: it returned, or it raised and a retry
\* is pending, or it raised for the last time.
ExecutionOver == scan.pc \in {"success", "waiting", "failed"}

\* C16: when a run is over in which neither the store nor the transport
\* raised, it ended with status success, and the reminder of each candidate
\* task was handed over exactly once for the owner's address and for the
\* address of each user holding a share on it, and for no other address or
\* task.
C16_EachRecipientOnceThenSuccess ==
    (RunOver /\ scan.faults = 0) =>
        /\ scan.pc = "success"
        /\ scan.summary.status = "success"
        /\ \A t \in DOMAIN tasks, u \in Users :
              SentCount(t, UserEmail(u)) =
                  IF t \in Candidates(now) /\ UserEmail(u) \in Recipients(t)
                  THEN 1 ELSE 0

\* C17: the summary of a successful scan has tasks_processed equal to the
\* number of candidate tasks and emails_sent equal to the number of messages
\* the transport took in that execution (every send attempted in an execution
\* that returns was delivered).
C17_SummaryCounts ==
    scan.pc = "success" =>
        /\ scan.summary.tasks_processed = Cardinality(Candidates(now))
        /\ scan.summary.emails_sent = Cardinality(scan.tried)

\* C18: when an execution is over in which a send raised, the execution
\* nevertheless returned with success and had attempted the send for every
\* recipient of every candidate task.
C18_SendFailureDoesNotAbort ==
    (ExecutionOver /\ scan.error = "transport") =>
        /\ scan.pc = "success"
        /\ \A t \in Range(scan.queue) : \A a \in Recipients(t) :
              \E m \in scan.tried : m.task = t /\ m.to = a

\* C19: an error in an execution (the store or the transport raising, or
\* the TypeError on the bulk result) ends that execution; it is answered by
\* a retry due 300 seconds after the instant of the failed execution while
\* fewer than 3 retries have been made, and by the failure of the run once 3
\* retries have been made; the retry starts at its due time; a run that has
\* succeeded or failed takes no further step; and every triggered run
\* reaches success or failure.
C19_BoundedRetryThenTerminates ==
    /\ [](scan.retries <= 3)
    /\ [][(scan.pc # "waiting" /\ scan'.pc = "waiting") =>
              /\ scan.retries < 3
              /\ scan'.retries = scan.retries + 1
              /\ scan'.eta = now + 300
              /\ scan'.error # ""]_vars
    /\ [][(scan.pc # "failed" /\ scan'.pc = "failed") =>
              /\ scan.retries = 3
              /\ scan'.error # ""]_vars
    /\ [][scan.pc = "waiting" => (scan'.pc = "start" /\ now' = scan.eta)]_vars
    /\ [][scan.pc = "start" => scan'.error = ""
              \/ scan'.pc \in {"waiting", "failed"}]_vars
    /\ [][~RunOver]_vars
    /\ <>RunOver

\* The run failed after the third retry raised like the executions before
\* it.
C19_Witness ==
    /\ scan.pc = "failed"
    /\ scan.retries = 3
    /\ scan.error = "TypeError"
    /\ now = scan.eta

\* C20: from the trigger of a run to its end, retries included, the
\* reminder of a task is handed over at most once for each address.
C20_NoDoubleSend ==
    \A t \in DOMAIN tasks, u \in Users : SentCount(t, UserEmail(u)) <= 1

\* C21: a point notification never propagates an error; when the task does
\* not exist nothing is sent and the result is a failure; when the task is
\* found the transport is called exactly once, with the pair of the reason
\* or the generic pair for an unknown reason; and the result is success
\* exactly when that send delivered the message.
C21_NotifyReportsSendOutcome ==
    notif.pc = "done" =>
        LET delivered == BagCardinality(outbox) = 1
        IN /\ notif.result.status \in {"success", "error"}
           /\ notif.task_id \notin DOMAIN tasks =>
                  /\ notif.tried = 0
                  /\ outbox = EmptyBag
                  /\ notif.result.status = "error"
           /\ notif.found =>
                  /\ notif.tried = 1
                  /\ BagCardinality(outbox) <= 1
                  /\ \A m \in BagToSet(outbox) :
                         /\ m.to = notif.user_email
                         /\ m.subject[1] =
                                CASE notif.notification_type = "task_created" -> "New Task Created: "
                                  [] notif.notification_type = "task_updated" -> "Task Updated: "
                                  [] notif.notification_type = "task_shared" -> "Task Shared: "
                                  [] notif.notification_type = "task_completed" -> "Task Completed: "
                                  [] OTHER -> "Task Notification: "
           /\ (notif.result.status = "success") <=> delivered

\* The number of reminders of task t handed to the transport for address a
\* since the run in progress was triggered.
SentThisRun(t, a) ==
    LET B == outbox (-) scan.mark
        S == {m \in BagToSet(B) : m.task = t /\ m.to = a}
    IN BagCardinality([m \in S |-> B[m]])

\* C22: no step of a scan changes a task or a share; and when the run after
\* a trigger that is not the first is over, every task that is then a
\* candidate (deadline in the window, not done, not created and due today)
\* was selected by it and each of its recipients was handed its reminder in
\* that run, whatever the runs before have sent.
C22_RescanNotifiesAgain ==
    /\ [][tasks' = tasks /\ shares' = shares]_vars
    /\ []((scan.run > 1 /\ RunOver) =>
             \A t \in Candidates(now) :
                 /\ t \in Range(scan.queue)
                 /\ \A a \in Recipients(t) : SentThisRun(t, a) >= 1)

\* The addresses of the users holding a share on task t when the execution
\* in progress started.
GranteesAtStart(t) ==
    {UserEmail(u) : u \in {v \in Users : ShareCount(scan.started, t, v) > 0}}

\* The addresses the execution in progress has sent the reminder of task t
\* to, or tried to.
Notified(t) == {m.to : m \in {x \in scan.tried : x.task = t}}

\* C23: with requests writing to the store while the scan runs, a scan that
\* returns reports as tasks_processed the number of tasks it iterated; and
\* when an execution is over that no store or transport error cut short,
\* each task it notified about was notified to its owner and to exactly the
\* users holding a share on it when the execution started.
C23_ScanWorksOnSnapshot ==
    /\ scan.pc = "success" => scan.summary.tasks_processed = Len(scan.queue)
    /\ (ExecutionOver /\ scan.error \notin {"db", "transport"}) =>
           \A t \in {m.task : m \in scan.tried} :
               Notified(t) = {UserEmail(scan.rows[t].owner)} \cup GranteesAtStart(t)

\* An id no task has: primary keys start at 1.
NoSuchTask == 0

\* u is neither the owner of task t nor holds a share on it.
IsStranger(u, t) == tasks[t].owner # u /\ ShareCount(shares, t, u) = 0

\* Every request u can make on task id t is answered with a response that
\* satisfies Ok, and with the store as it was when frame is asked for.
AllRequestsOn(u, t, Ok(_), frame) ==
    /\ Ok(RetrieveResult(shares, tasks, u, t).resp)
    /\ Ok(SharesResult(shares, tasks, u, t).resp)
    /\ LET r == DestroyResult(shares, tasks, u, t)
       IN Ok(r.resp) /\ (frame => r.tk = tasks /\ r.sh = shares)
    /\ \A data \in DataInputs :
          /\ LET r == UpdateResult(shares, tasks, u, t, data)
             IN Ok(r.resp) /\ (frame => r.tk = tasks)
          /\ LET r == PartialUpdateResult(shares, tasks, u, t, data)
             IN Ok(r.resp) /\ (frame => r.tk = tasks)
    /\ \A b \in EmailInputs \X PermissionInputs :
          LET r == ShareResult(shares, tasks, u, t, b[1], b[2])
          IN Ok(r.resp) /\ (frame => r.sh = shares)
    /\ \A uid \in UserIdInputs :
          LET r == RevokeShareResult(shares, tasks, u, t, uid)
          IN Ok(r.resp) /\ (frame => r.sh = shares)

\* The response is 404 "Not found.".
IsNotFound(r) == r = Raised(404)

\* The response is not 403.
NotForbidden(r) == r.code # 403

\* At this store: a user who is neither owner nor grantee of an existing
\* task gets 404 "Not found." from every request on it, as from every
\* request on an id no task has, and the request changes neither tasks nor
\* shares; no request of an owner on the task is answered 403, nor is a
\* list or create request of anyone; and if the last response was 403 some
\* user holds a share.
StrangerSeesNotFound ==
    /\ \A u \in Users :
          /\ \A t \in DOMAIN tasks :
                 /\ IsStranger(u, t) => AllRequestsOn(u, t, IsNotFound, TRUE)
                 /\ tasks[t].owner = u => AllRequestsOn(u, t, NotForbidden, FALSE)
          /\ AllRequestsOn(u, NoSuchTask, IsNotFound, TRUE)
          /\ NotForbidden(ListResult(shares, tasks, u).resp)
          /\ \A data \in DataInputs :
                 NotForbidden(CreateResult(tasks, nextId, u, data).resp)
    /\ resp.code = 403 =>
          \E t \in DOMAIN tasks : \E u \in Users : ShareCount(shares, t, u) > 0

\* C24: at every moment, for a user who is neither owner nor grantee of an
\* existing task, retrieve, update, partial update, delete, share, list
\* shares and revoke share all answer 404 "Not found.", the very response
\* the same request gets on an id no task has, and change neither tasks nor
\* shares; and only a user holding a share on the task is ever answered
\* 403: the owner never is, and everyone else gets 404.
C24_StrangerSeesNotFound == []StrangerSeesNotFound

\* A request of a user who is neither owner nor grantee of the task, which
\* another user holds a share on, has just been answered 404.
C24_Witness ==
    /\ resp = Raised(404)
    /\ \E t \in DOMAIN tasks :
          /\ \E u \in Users : IsStranger(u, t)
          /\ \E g \in Users : ShareCount(shares, t, g) > 0
====
